---- MODULE Spec2Model ----
(***************************************************************************)
(* Model of simple-octree: the bare 8-ary Octree container (src/src/lib.rs)*)
(* and the managed, capacity-aware octree built on it                      *)
(* (src/src/managed_octree.rs).                                            *)
(*                                                                         *)
(* A managed tree is a function from paths to node payloads.  A path is   *)
(* the sequence of child indices leading from the root (<<>>) to a node;  *)
(* node p has a child in slot i exactly when Append(p, i) is in the       *)
(* domain of the function (children[i].is_some()).                         *)
(***************************************************************************)
EXTENDS Integers, Sequences, FiniteSets, Bags, TLC

VARIABLES
    kind,      \* managed tree: the collection type D ("Vec" or "HashMap")
    tree,      \* managed tree: path |-> ManagedOctreeData of the node
    last,      \* managed tree: the last call, its arguments and the tree before it
    panicked,  \* managed tree: "none" or the panic that ended the run
    calls,     \* managed tree: number of calls made so far, per method
    oct,       \* bare Octree<D>: the eight child slots and the payload
    olast,     \* bare Octree<D>: the last call, its result and oct before it
    gnode,     \* the node get_child_centre_and_half_length_at_pos is called on
    pf         \* the last pure function applied, its input and output

mvars == <<kind, tree, last, panicked, calls>>
ovars == <<oct, olast>>
pvars == <<gnode, pf>>
vars == <<kind, tree, last, panicked, calls, oct, olast, gnode, pf>>

\* ------------------------------------------------------------------ bounds
\* a behaviour calls add at most MaxAdds times, clear_data at most MaxClears
\* times and rebalance at most MaxRebalances times
MaxAdds == 3
MaxClears == 1
MaxRebalances == 2
\* add_child / remove_child / get_child are called with idx in 0 .. MaxIdx
MaxIdx == 9
\* a bare Octree is given at most MaxOccupied children
MaxOccupied == 3
\* child_geometry is applied to centres in (-MaxCoord .. MaxCoord)^3 and
\* half lengths in 0 .. MaxHalfLength
MaxCoord == 1
MaxHalfLength == 4

\* ------------------------------------------------------- program constants
NumChildren == 8
DefaultMaxSize == 1
DefaultDropBelowSize == 1

\* ------------------------------------------------------------------ inputs
Kinds == {"Vec", "HashMap"}
Points == {<<1, 1, 1>>, <<2, 2, 1>>, <<-1, -1, -1>>, <<0, 1, 1>>}
Keys == {123, 7}
RootCentres == {<<0, 0, 0>>}
RootHalfLengths == {4}
MaxSizes == {0, DefaultMaxSize, 2}
DropBelowSizes == {DefaultDropBelowSize, 2}

Idxs == 0 .. (NumChildren - 1)

\* items a caller may add: bare points for a Vec, (key, point) for a HashMap
Items == IF kind = "Vec" THEN Points ELSE Keys \X Points

\* ------------------------------------------------------- octant index maps
get_child_idx_at_pos(pos_x, pos_y, pos_z) ==
    CASE (~pos_x) /\ (~pos_y) /\ (~pos_z) -> 0
      [] (~pos_x) /\ (~pos_y) /\ pos_z    -> 1
      [] (~pos_x) /\ pos_y    /\ (~pos_z) -> 2
      [] (~pos_x) /\ pos_y    /\ pos_z    -> 3
      [] pos_x    /\ (~pos_y) /\ (~pos_z) -> 4
      [] pos_x    /\ (~pos_y) /\ pos_z    -> 5
      [] pos_x    /\ pos_y    /\ (~pos_z) -> 6
      [] pos_x    /\ pos_y    /\ pos_z    -> 7

\* mutant: the arms of 1 and 4 exchanged (z taken for the high bit)
get_child_pos_at_idx_swapped(idx) ==
    CASE idx = 0 -> <<FALSE, FALSE, FALSE>>
      [] idx = 1 -> <<TRUE, FALSE, FALSE>>
      [] idx = 2 -> <<FALSE, TRUE, FALSE>>
      [] idx = 3 -> <<FALSE, TRUE, TRUE>>
      [] idx = 4 -> <<FALSE, FALSE, TRUE>>
      [] idx = 5 -> <<TRUE, FALSE, TRUE>>
      [] idx = 6 -> <<TRUE, TRUE, FALSE>>
      [] idx = 7 -> <<TRUE, TRUE, TRUE>>
      [] OTHER   -> <<"panic">>

\* <<"panic">> stands for the panic!("idx > 7") arm
get_child_pos_at_idx(idx) ==
    CASE idx = 0 -> <<FALSE, FALSE, FALSE>>
      [] idx = 1 -> <<FALSE, FALSE, TRUE>>
      [] idx = 2 -> <<FALSE, TRUE, FALSE>>
      [] idx = 3 -> <<FALSE, TRUE, TRUE>>
      [] idx = 4 -> <<TRUE, FALSE, FALSE>>
      [] idx = 5 -> <<TRUE, FALSE, TRUE>>
      [] idx = 6 -> <<TRUE, TRUE, FALSE>>
      [] idx = 7 -> <<TRUE, TRUE, TRUE>>
      [] OTHER   -> <<"panic">>

\* --------------------------------------------------- collection abstraction
\* CentredItem::centre: a bare tuple is its own centre, a (key, value) pair's
\* centre is the value
centre(item) == IF kind = "Vec" THEN item ELSE item[2]

\* D::default(): an empty Vec or an empty HashMap (a set of (key, value)
\* pairs with pairwise different keys)
DefaultData == IF kind = "Vec" THEN <<>> ELSE {}

\* len_trait::Len for Vec / HashMap
DataLen(d) == IF kind = "Vec" THEN Len(d) ELSE Cardinality(d)

KeysOf(d) == {kv[1] : kv \in d}

\* OctreeCollection::add for Vec: push, always Some(())
VecAdd(d, item) == [ok |-> TRUE, data |-> Append(d, item)]

\* mutant: HashMap::insert alone, which overwrites the value of a present key
HashMapAdd_overwrite(d, item) ==
    [ok |-> TRUE, data |-> {kv \in d : kv[1] # item[1]} \cup {item}]

\* OctreeCollection::add for HashMap: None when the key is present, else insert
HashMapAdd(d, item) ==
    IF item[1] \in KeysOf(d)
    THEN [ok |-> FALSE, data |-> d]
    ELSE [ok |-> TRUE, data |-> d \cup {item}]

CollAdd(d, item) == IF kind = "Vec" THEN VecAdd(d, item) ELSE HashMapAdd(d, item)

RECURSIVE SetToSeq(_)
SetToSeq(S) ==
    IF S = {} THEN <<>>
    ELSE LET x == CHOOSE y \in S : TRUE IN <<x>> \o SetToSeq(S \ {x})

\* IntoIterator: a Vec yields its items in order; a HashMap yields each entry
\* once, in an order that has no effect on what the loop below computes
\* (the entries have pairwise different keys)
IterOrder(d) == IF kind = "Vec" THEN d ELSE SetToSeq(d)

\* ------------------------------------------------------------ managed nodes
\* ManagedOctreeData::default()
DefaultManagedData ==
    [centre |-> <<0, 0, 0>>, half_length |-> 1,
     max_size |-> DefaultMaxSize, drop_below_size |-> DefaultDropBelowSize,
     len |-> 0, data |-> DefaultData]

new_managed(c, half_length) ==
    [DefaultManagedData EXCEPT !.centre = c, !.half_length = half_length]

with_max_size(node, max_size) == [node EXCEPT !.max_size = max_size]

\* panics when drop_below_size = 0 (see NewChild)
with_drop_below_size(node, drop_below_size) ==
    [node EXCEPT !.drop_below_size = drop_below_size]

HasChild(t, p, idx) == Append(p, idx) \in DOMAIN t

\* ManagedOctree::add: the collection's answer is discarded and len is
\* incremented in either case
add(t, p, item) ==
    [t EXCEPT ![p].data = CollAdd(t[p].data, item).data,
              ![p].len = t[p].len + 1]

\* mutant: len reset to zero instead of reduced by the collection's size
clear_data_len_zero(t, p) ==
    [t EXCEPT ![p].len = 0, ![p].data = DefaultData]

\* ManagedOctree::clear_data; the subtraction is on usize, and going below
\* zero ends the run ("clear_underflow", see ClearData)
clear_data(t, p) ==
    [t EXCEPT ![p].len = t[p].len - DataLen(t[p].data),
              ![p].data = DefaultData]

\* mutant: the (true, false, true) arm adds hhl on the y axis
get_child_centre_and_half_length_at_pos_wrong_sign(node, pos_x, pos_y, pos_z) ==
    LET cx == node.centre[1]
        cy == node.centre[2]
        cz == node.centre[3]
        hhl == node.half_length \div (1 + 1)
    IN CASE (~pos_x) /\ (~pos_y) /\ (~pos_z) -> <<<<cx - hhl, cy - hhl, cz - hhl>>, hhl>>
         [] (~pos_x) /\ (~pos_y) /\ pos_z    -> <<<<cx - hhl, cy - hhl, cz + hhl>>, hhl>>
         [] (~pos_x) /\ pos_y    /\ (~pos_z) -> <<<<cx - hhl, cy + hhl, cz - hhl>>, hhl>>
         [] (~pos_x) /\ pos_y    /\ pos_z    -> <<<<cx - hhl, cy + hhl, cz + hhl>>, hhl>>
         [] pos_x    /\ (~pos_y) /\ (~pos_z) -> <<<<cx + hhl, cy - hhl, cz - hhl>>, hhl>>
         [] pos_x    /\ (~pos_y) /\ pos_z    -> <<<<cx + hhl, cy + hhl, cz + hhl>>, hhl>>
         [] pos_x    /\ pos_y    /\ (~pos_z) -> <<<<cx + hhl, cy + hhl, cz - hhl>>, hhl>>
         [] pos_x    /\ pos_y    /\ pos_z    -> <<<<cx + hhl, cy + hhl, cz + hhl>>, hhl>>

\* S is modelled by the integers; x / (one + one) is integer division
get_child_centre_and_half_length_at_pos(node, pos_x, pos_y, pos_z) ==
    LET cx == node.centre[1]
        cy == node.centre[2]
        cz == node.centre[3]
        hhl == node.half_length \div (1 + 1)
    IN CASE (~pos_x) /\ (~pos_y) /\ (~pos_z) -> <<<<cx - hhl, cy - hhl, cz - hhl>>, hhl>>
         [] (~pos_x) /\ (~pos_y) /\ pos_z    -> <<<<cx - hhl, cy - hhl, cz + hhl>>, hhl>>
         [] (~pos_x) /\ pos_y    /\ (~pos_z) -> <<<<cx - hhl, cy + hhl, cz - hhl>>, hhl>>
         [] (~pos_x) /\ pos_y    /\ pos_z    -> <<<<cx - hhl, cy + hhl, cz + hhl>>, hhl>>
         [] pos_x    /\ (~pos_y) /\ (~pos_z) -> <<<<cx + hhl, cy - hhl, cz - hhl>>, hhl>>
         [] pos_x    /\ (~pos_y) /\ pos_z    -> <<<<cx + hhl, cy - hhl, cz + hhl>>, hhl>>
         [] pos_x    /\ pos_y    /\ (~pos_z) -> <<<<cx + hhl, cy + hhl, cz - hhl>>, hhl>>
         [] pos_x    /\ pos_y    /\ pos_z    -> <<<<cx + hhl, cy + hhl, cz + hhl>>, hhl>>

\* mutant: >= in place of >, an item on the centre plane goes to the
\* positive side
ItemIdx_ge(t, p, item) ==
    LET c == t[p].centre
        i == centre(item)
    IN get_child_idx_at_pos(i[1] >= c[1], i[2] >= c[2], i[3] >= c[3])

\* the octant of an item relative to node p: strict > on every axis
ItemIdx(t, p, item) ==
    LET c == t[p].centre
        i == centre(item)
    IN get_child_idx_at_pos(i[1] > c[1], i[2] > c[2], i[3] > c[3])

\* mutant: the bucket counter is incremented for moved items as well
MoveItem_counting_all(acc, p, item) ==
    LET idx == ItemIdx(acc.tree, p, item)
    IN IF HasChild(acc.tree, p, idx)
       THEN [tree |-> add(acc.tree, Append(p, idx), item),
             result |-> [acc.result EXCEPT ![idx] = @ + 1]]
       ELSE [tree |-> add(acc.tree, p, item),
             result |-> [acc.result EXCEPT ![idx] = @ + 1]]

\* one iteration of the loop of move_to_existing_children
MoveItem(acc, p, item) ==
    LET idx == ItemIdx(acc.tree, p, item)
    IN IF HasChild(acc.tree, p, idx)
       THEN [tree |-> add(acc.tree, Append(p, idx), item), result |-> acc.result]
       ELSE [tree |-> add(acc.tree, p, item),
             result |-> [acc.result EXCEPT ![idx] = @ + 1]]

RECURSIVE MoveLoop(_, _, _)
MoveLoop(acc, p, items) ==
    IF items = <<>> THEN acc
    ELSE MoveLoop(MoveItem(acc, p, Head(items)), p, Tail(items))

\* mem::swap takes the collection out of the node (len is left as it is),
\* then every item is pushed to its child or back into the node
move_to_existing_children(t, p) ==
    LET old_d == t[p].data
        swapped == [t EXCEPT ![p].data = DefaultData]
    IN MoveLoop([tree |-> swapped, result |-> [i \in Idxs |-> 0]], p,
                IterOrder(old_d))

\* mutant: the comparison's operands swapped, an ascending sort
sort_bucket_sizes_next_ascending(sizes, rest) ==
    {i \in rest : \A j \in rest : sizes[i] <= sizes[j]}

\* sort_unstable_by in descending order of size: the element that comes next
\* is any of the not yet visited buckets of maximal size (ties in any order)
sort_bucket_sizes_next(sizes, rest) ==
    {i \in rest : \A j \in rest : sizes[i] >= sizes[j]}

\* Octree::add_child on the managed tree, as rebalance uses it
InstallChild(t, p, idx, node) ==
    [q \in DOMAIN t \cup {Append(p, idx)} |->
        IF q = Append(p, idx) THEN node ELSE t[q]]

\* mutant: the new child keeps the default max_size
NewChild_default_max_size(t, p, idx) ==
    LET pos == get_child_pos_at_idx(idx)
        g == get_child_centre_and_half_length_at_pos(t[p], pos[1], pos[2], pos[3])
    IN with_drop_below_size(new_managed(g[1], g[2]), t[p].drop_below_size)

\* the child rebalance builds for slot idx of node p
NewChild(t, p, idx) ==
    LET pos == get_child_pos_at_idx(idx)
        g == get_child_centre_and_half_length_at_pos(t[p], pos[1], pos[2], pos[3])
    IN with_drop_below_size(
           with_max_size(new_managed(g[1], g[2]), t[p].max_size),
           t[p].drop_below_size)

\* mutant: the loop ends when max_val, not new_size, is <= max_size
RECURSIVE RebalanceLoop_wrong_var(_, _, _, _, _)
RebalanceLoop_wrong_var(t, p, sizes, rest, new_size) ==
    IF rest = {} THEN {[tree |-> t, panic |-> "none"]}
    ELSE UNION {
        IF t[p].drop_below_size = 0
        THEN {[tree |-> t, panic |-> "drop_below_size"]}
        ELSE IF HasChild(t, p, max_idx)
        THEN {[tree |-> t, panic |-> "unwrap"]}
        ELSE LET t2 == InstallChild(t, p, max_idx, NewChild(t, p, max_idx))
             IN IF sizes[max_idx] > new_size
                THEN {[tree |-> t2, panic |-> "underflow"]}
                ELSE IF sizes[max_idx] <= t[p].max_size
                THEN {[tree |-> t2, panic |-> "none"]}
                ELSE RebalanceLoop_wrong_var(t2, p, sizes, rest \ {max_idx},
                                             new_size - sizes[max_idx])
        : max_idx \in sort_bucket_sizes_next(sizes, rest)}

\* the for loop of rebalance; yields every outcome the tie order allows.
\* panic: "unwrap" (add_child failed), "drop_below_size" (with_drop_below_size
\* got 0), "underflow" (new_size -= max_val below zero)
RECURSIVE RebalanceLoop(_, _, _, _, _)
RebalanceLoop(t, p, sizes, rest, new_size) ==
    IF rest = {} THEN {[tree |-> t, panic |-> "none"]}
    ELSE UNION {
        IF t[p].drop_below_size = 0
        THEN {[tree |-> t, panic |-> "drop_below_size"]}
        ELSE IF HasChild(t, p, max_idx)
        THEN {[tree |-> t, panic |-> "unwrap"]}
        ELSE LET t2 == InstallChild(t, p, max_idx, NewChild(t, p, max_idx))
             IN IF sizes[max_idx] > new_size
                THEN {[tree |-> t2, panic |-> "underflow"]}
                ELSE IF new_size - sizes[max_idx] <= t[p].max_size
                THEN {[tree |-> t2, panic |-> "none"]}
                ELSE RebalanceLoop(t2, p, sizes, rest \ {max_idx},
                                   new_size - sizes[max_idx])
        : max_idx \in sort_bucket_sizes_next(sizes, rest)}

\* mutant: the closing call of move_to_existing_children left out
rebalance_no_second_pass(t, p) ==
    LET m1 == move_to_existing_children(t, p)
    IN IF DataLen(m1.tree[p].data) <= m1.tree[p].max_size
       THEN {[tree |-> m1.tree, panic |-> "none"]}
       ELSE RebalanceLoop(m1.tree, p, m1.result, Idxs, DataLen(m1.tree[p].data))

\* mutant: every child of the node is rebalanced in turn after the node
rebalance_recursing(t, p) ==
    LET one(tt, pp) ==
            LET m1 == move_to_existing_children(tt, pp)
            IN IF DataLen(m1.tree[pp].data) <= m1.tree[pp].max_size
               THEN {[tree |-> m1.tree, panic |-> "none"]}
               ELSE {IF o.panic = "none"
                     THEN [tree |-> move_to_existing_children(o.tree, pp).tree,
                           panic |-> "none"]
                     ELSE o
                     : o \in RebalanceLoop(m1.tree, pp, m1.result, Idxs,
                                           DataLen(m1.tree[pp].data))}
        RECURSIVE all(_, _)
        all(outs, kids) ==
            IF kids = {} THEN outs
            ELSE LET q == CHOOSE x \in kids : TRUE
                 IN all(UNION {IF o.panic = "none" THEN one(o.tree, q) ELSE {o}
                               : o \in outs}, kids \ {q})
    IN UNION {all({o}, {Append(p, i) : i \in {j \in Idxs : HasChild(o.tree, p, j)}})
              : o \in one(t, p)}

\* ManagedOctree::rebalance: the set of outcomes
rebalance(t, p) ==
    LET m1 == move_to_existing_children(t, p)
    IN IF DataLen(m1.tree[p].data) <= m1.tree[p].max_size
       THEN {[tree |-> m1.tree, panic |-> "none"]}
       ELSE {IF o.panic = "none"
             THEN [tree |-> move_to_existing_children(o.tree, p).tree,
                   panic |-> "none"]
             ELSE o
             : o \in RebalanceLoop(m1.tree, p, m1.result, Idxs,
                                   DataLen(m1.tree[p].data))}

\* ---------------------------------------------------------- bare Octree<D>
\* Option<T>: None is <<>>, Some(x) is <<x>>
None == <<>>
Some(x) == <<x>>

\* the child octrees a caller hands to add_child, told apart by their payload
Payloads == {"a", "b"}
ChildOctrees == {[children |-> [i \in Idxs |-> None], data |-> d] : d \in Payloads}

\* Octree::new() / Default
new == [children |-> [i \in Idxs |-> None], data |-> "root"]

\* Octree::get_child
get_child(o, idx) ==
    IF idx >= NumChildren THEN None ELSE o.children[idx]

\* mutant: the is_some() test left out, an occupied slot is overwritten
add_child_replacing(o, idx, child) ==
    IF idx >= NumChildren
    THEN [oct |-> o, ret |-> [err |-> "OutOfBoundsIdx", val |-> None]]
    ELSE LET o2 == [o EXCEPT !.children[idx] = Some(child)]
         IN [oct |-> o2, ret |-> [err |-> "none", val |-> get_child(o2, idx)]]

\* Octree::add_child: the octree after the call and the returned Result.
\* A result is [err, val]: Ok(x) is err = "none" with val = Some(x), Err(e)
\* is err = e with val = None
add_child(o, idx, child) ==
    IF idx >= NumChildren
    THEN [oct |-> o, ret |-> [err |-> "OutOfBoundsIdx", val |-> None]]
    ELSE IF o.children[idx] # None
    THEN [oct |-> o, ret |-> [err |-> "AlreadyAdded", val |-> None]]
    ELSE LET o2 == [o EXCEPT !.children[idx] = Some(child)]
         IN IF get_child(o2, idx) = None
            THEN [oct |-> o2, ret |-> [err |-> "OutOfBoundsIdx", val |-> None]]
            ELSE [oct |-> o2, ret |-> [err |-> "none", val |-> get_child(o2, idx)]]

\* mutant: the slot is read (as_ref) instead of taken
remove_child_not_taken(o, idx) ==
    IF idx >= NumChildren
    THEN [oct |-> o, ret |-> None]
    ELSE [oct |-> o, ret |-> o.children[idx]]

\* Octree::remove_child: children.get(idx) is None exactly when idx is out of
\* range; otherwise the slot is taken (left None) and its old content returned
remove_child(o, idx) ==
    IF idx >= NumChildren
    THEN [oct |-> o, ret |-> None]
    ELSE [oct |-> [o EXCEPT !.children[idx] = None], ret |-> o.children[idx]]

Occupied(o) == {i \in Idxs : o.children[i] # None}

\* ------------------------------------------------------------- state machine
InitManagedIdle ==
    /\ kind = "Vec"
    /\ tree = <<>>
    /\ last = <<>>
    /\ panicked = "none"
    /\ calls = <<>>

InitOctreeIdle ==
    /\ oct = <<>>
    /\ olast = <<>>

InitPureIdle ==
    /\ gnode = <<>>
    /\ pf = <<>>

\* a root built by new_managed(..).with_max_size(..).with_drop_below_size(..)
Init ==
    /\ kind \in Kinds
    /\ \E c \in RootCentres, h \in RootHalfLengths,
          m \in MaxSizes, d \in DropBelowSizes :
          tree = [q \in {<<>>} |->
                    with_drop_below_size(with_max_size(new_managed(c, h), m), d)]
    /\ last = [op |-> "init", node |-> <<>>, item |-> <<>>, pre |-> tree]
    /\ panicked = "none"
    /\ calls = [add |-> 0, clear_data |-> 0, rebalance |-> 0]
    /\ InitOctreeIdle
    /\ InitPureIdle

Add(p, item) ==
    /\ panicked = "none"
    /\ calls.add < MaxAdds
    /\ calls' = [calls EXCEPT !.add = @ + 1]
    /\ tree' = add(tree, p, item)
    /\ last' = [op |-> "add", node |-> p, item |-> item, pre |-> tree]
    /\ UNCHANGED <<kind, panicked, ovars, pvars>>

ClearData(p) ==
    /\ panicked = "none"
    /\ calls.clear_data < MaxClears
    /\ calls' = [calls EXCEPT !.clear_data = @ + 1]
    /\ tree' = clear_data(tree, p)
    /\ panicked' = IF tree[p].len < DataLen(tree[p].data)
                   THEN "clear_underflow" ELSE "none"
    /\ last' = [op |-> "clear_data", node |-> p, item |-> <<>>, pre |-> tree]
    /\ UNCHANGED <<kind, ovars, pvars>>

Rebalance(p) ==
    /\ panicked = "none"
    /\ calls.rebalance < MaxRebalances
    /\ calls' = [calls EXCEPT !.rebalance = @ + 1]
    /\ \E o \in rebalance(tree, p) :
          /\ tree' = o.tree
          /\ panicked' = o.panic
    /\ last' = [op |-> "rebalance", node |-> p, item |-> <<>>, pre |-> tree]
    /\ UNCHANGED <<kind, ovars, pvars>>

Next ==
    \/ \E p \in DOMAIN tree, item \in Items : Add(p, item)
    \/ \E p \in DOMAIN tree : ClearData(p)
    \/ \E p \in DOMAIN tree : Rebalance(p)

Spec == Init /\ [][Next]_vars

\* ------------------------------------------- state machine of the bare Octree
InitOctree ==
    /\ oct = new
    /\ olast = [op |-> "new", idx |-> 0, child |-> None,
                err |-> "none", ret |-> None, pre |-> oct]
    /\ InitManagedIdle
    /\ InitPureIdle

AddChild(idx, child) ==
    /\ (idx < NumChildren /\ oct.children[idx] = None)
          => Cardinality(Occupied(oct)) < MaxOccupied
    /\ LET r == add_child(oct, idx, child)
       IN /\ oct' = r.oct
          /\ olast' = [op |-> "add_child", idx |-> idx, child |-> Some(child),
                       err |-> r.ret.err, ret |-> r.ret.val, pre |-> oct]
    /\ UNCHANGED <<mvars, pvars>>

RemoveChild(idx) ==
    /\ LET r == remove_child(oct, idx)
       IN /\ oct' = r.oct
          /\ olast' = [op |-> "remove_child", idx |-> idx, child |-> None,
                       err |-> "none", ret |-> r.ret, pre |-> oct]
    /\ UNCHANGED <<mvars, pvars>>

GetChild(idx) ==
    /\ olast' = [op |-> "get_child", idx |-> idx, child |-> None,
                 err |-> "none", ret |-> get_child(oct, idx), pre |-> oct]
    /\ UNCHANGED <<oct, mvars, pvars>>

NextOctree ==
    \/ \E idx \in 0 .. MaxIdx, child \in ChildOctrees : AddChild(idx, child)
    \/ \E idx \in 0 .. MaxIdx : RemoveChild(idx)
    \/ \E idx \in 0 .. MaxIdx : GetChild(idx)

SpecOctree == InitOctree /\ [][NextOctree]_vars

\* --------------------------------------- state machine of the pure functions
Coords == (0 - MaxCoord) .. MaxCoord

InitPure ==
    /\ InitManagedIdle
    /\ InitOctreeIdle
    /\ \E cx \in Coords, cy \in Coords, cz \in Coords, h \in 0 .. MaxHalfLength :
          gnode = new_managed(<<cx, cy, cz>>, h)
    /\ pf = [fn |-> "none", in |-> <<>>, out |-> <<>>, node |-> gnode]

IdxAtPos(pos_x, pos_y, pos_z) ==
    /\ pf' = [fn |-> "get_child_idx_at_pos", in |-> <<pos_x, pos_y, pos_z>>,
              out |-> <<get_child_idx_at_pos(pos_x, pos_y, pos_z)>>, node |-> gnode]
    /\ UNCHANGED <<gnode, mvars, ovars>>

PosAtIdx(idx) ==
    /\ pf' = [fn |-> "get_child_pos_at_idx", in |-> <<idx>>,
              out |-> get_child_pos_at_idx(idx), node |-> gnode]
    /\ UNCHANGED <<gnode, mvars, ovars>>

ChildGeometry(pos_x, pos_y, pos_z) ==
    /\ pf' = [fn |-> "get_child_centre_and_half_length_at_pos",
              in |-> <<pos_x, pos_y, pos_z>>,
              out |-> get_child_centre_and_half_length_at_pos(
                          gnode, pos_x, pos_y, pos_z),
              node |-> gnode]
    /\ UNCHANGED <<gnode, mvars, ovars>>

NextPure ==
    \/ \E x \in BOOLEAN, y \in BOOLEAN, z \in BOOLEAN : IdxAtPos(x, y, z)
    \/ \E idx \in 0 .. MaxIdx : PosAtIdx(idx)
    \/ \E x \in BOOLEAN, y \in BOOLEAN, z \in BOOLEAN : ChildGeometry(x, y, z)

SpecPure == InitPure /\ [][NextPure]_vars

\* ==================================================================== claims
\* number of copies of item it in collection d
CountIn(d, it) ==
    IF kind = "Vec" THEN Cardinality({n \in 1 .. Len(d) : d[n] = it})
    ELSE IF it \in d THEN 1 ELSE 0

IsPrefix(p, q) == Len(p) <= Len(q) /\ SubSeq(q, 1, Len(p)) = p

Subtree(t, p) == {q \in DOMAIN t : IsPrefix(p, q)}

RECURSIVE SumCount(_, _, _)
SumCount(t, S, it) ==
    IF S = {} THEN 0
    ELSE LET q == CHOOSE x \in S : TRUE
         IN CountIn(t[q].data, it) + SumCount(t, S \ {q}, it)

\* number of copies of it held in the subtree of node p
SubtreeCount(t, p, it) == SumCount(t, Subtree(t, p), it)

\* C1: in every reachable state the cached len of every node equals the
\* number of items in that node's own collection
C1_LenMatchesCollection ==
    \A p \in DOMAIN tree : tree[p].len = DataLen(tree[p].data)

\* a local item of N whose key is already present in the child it moves into
DropsOnMove(t, p, it) ==
    /\ kind = "HashMap"
    /\ it \in t[p].data
    /\ HasChild(t, p, ItemIdx(t, p, it))
    /\ it[1] \in KeysOf(t[Append(p, ItemIdx(t, p, it))].data)

\* C2: rebalance on N leaves the multiset of items of N's subtree unchanged
\* for a Vec; for a HashMap exactly the local items of N whose key was
\* present in the child they move into disappear, and nothing else changes
C2_RebalanceKeepsItems ==
    last.op = "rebalance" =>
        \A it \in Items :
            SubtreeCount(last.pre, last.node, it)
                - SubtreeCount(tree, last.node, it)
              = IF DropsOnMove(last.pre, last.node, it) THEN 1 ELSE 0

C2_Witness ==
    /\ last.op = "rebalance"
    /\ \E it \in Items : DropsOnMove(last.pre, last.node, it)
    /\ \E it \in Items :
          /\ ~DropsOnMove(last.pre, last.node, it)
          /\ CountIn(last.pre[last.node].data, it) = 1
          /\ CountIn(tree[last.node].data, it) = 0

\* C3: add of an item whose key is already in the node's HashMap leaves the
\* stored value, the size of the collection and len unchanged
C3_DuplicateAddRejected ==
    (/\ last.op = "add"
     /\ kind = "HashMap"
     /\ last.item[1] \in KeysOf(last.pre[last.node].data))
    => /\ tree[last.node].data = last.pre[last.node].data
       /\ tree[last.node].len = last.pre[last.node].len

\* ---- the quantities the rebalance claims speak of, from the tree before
\* the call (pre) and the node N the call was made on
\* c[i]: the local items of N in octant i, for the octants without a child
OctantCounts(pre, N) ==
    [i \in Idxs |->
        IF HasChild(pre, N, i) THEN 0
        ELSE Cardinality({n \in 1 .. DataLen(pre[N].data) :
                            ItemIdx(pre, N, IterOrder(pre[N].data)[n]) = i})]

RECURSIVE SumOver(_, _)
SumOver(f, S) ==
    IF S = {} THEN 0
    ELSE LET x == CHOOSE y \in S : TRUE IN f[x] + SumOver(f, S \ {x})

\* sum of the k largest values of c
RECURSIVE TopK(_, _, _)
TopK(c, S, k) ==
    IF k = 0 \/ S = {} THEN 0
    ELSE LET m == CHOOSE i \in S : \A j \in S : c[i] >= c[j]
         IN c[m] + TopK(c, S \ {m}, k - 1)

\* the slots of N that got a child during the call
Created(pre, post, N) == {i \in Idxs : HasChild(post, N, i) /\ ~HasChild(pre, N, i)}

\* C4: after rebalance on a node holding more than max_size items, the node
\* holds at most max_size items, or every local item lay in an octant with a
\* child that existed before and no child was created, or the counters of the
\* octants without a child did not add up to the excess
C4_CapacityConvergence ==
    (/\ last.op = "rebalance"
     /\ DataLen(last.pre[last.node].data) > last.pre[last.node].max_size)
    => LET N == last.node
           pre == last.pre
           c == OctantCounts(pre, N)
           L == SumOver(c, Idxs)
       IN \/ DataLen(tree[N].data) <= tree[N].max_size
          \/ /\ Created(pre, tree, N) = {}
             /\ L = 0
          \/ /\ L > pre[N].max_size
             /\ L - SumOver(c, {i \in Idxs : c[i] > 0}) > pre[N].max_size

C4_Witness ==
    /\ last.op = "rebalance"
    /\ DataLen(last.pre[last.node].data) > last.pre[last.node].max_size
    /\ Created(last.pre, tree, last.node) # {}
    /\ DataLen(tree[last.node].data) > 0

\* the sign of slot i on each axis, from i = 4x + 2y + z
SlotSign(i) == <<(i \div 4) % 2 = 1, (i \div 2) % 2 = 1, i % 2 = 1>>

Parent(q) == SubSeq(q, 1, Len(q) - 1)

\* C5: every child in slot i has its parent's max_size and drop_below_size,
\* half the parent's half length and the centre of octant i of the parent;
\* no call changes these four fields of a node that exists
C5_ChildrenDerived ==
    /\ \A q \in DOMAIN tree \ {<<>>} :
          LET par == tree[Parent(q)]
              sg == SlotSign(q[Len(q)])
              h == par.half_length \div 2
          IN /\ tree[q].max_size = par.max_size
             /\ tree[q].drop_below_size = par.drop_below_size
             /\ tree[q].half_length = h
             /\ \A a \in 1 .. 3 :
                   tree[q].centre[a] =
                       IF sg[a] THEN par.centre[a] + h ELSE par.centre[a] - h
    /\ \A q \in DOMAIN last.pre :
          /\ q \in DOMAIN tree
          /\ tree[q].centre = last.pre[q].centre
          /\ tree[q].half_length = last.pre[q].half_length
          /\ tree[q].max_size = last.pre[q].max_size
          /\ tree[q].drop_below_size = last.pre[q].drop_below_size

C5_Witness ==
    /\ \E q \in DOMAIN tree : Len(q) = 2 /\ q[1] # q[2]
    /\ tree[<<>>].max_size # DefaultMaxSize
    /\ last.op = "rebalance"

\* C10: rebalance creates the least number k of children for which L minus
\* the k largest counts is <= max_size; each created child sits on an octant
\* with a nonzero count that is >= the count of every octant left without a
\* child; each new child holds exactly its octant's items, N keeps the rest
C10_GreedySubdivision ==
    last.op = "rebalance" =>
        LET N == last.node
            pre == last.pre
            c == OctantCounts(pre, N)
            L == SumOver(c, Idxs)
            made == Created(pre, tree, N)
            k == Cardinality(made)
        IN /\ L - TopK(c, Idxs, k) <= pre[N].max_size
           /\ \A j \in 0 .. (k - 1) : L - TopK(c, Idxs, j) > pre[N].max_size
           /\ \A i \in made :
                 /\ c[i] > 0
                 /\ \A j \in Idxs : ~HasChild(tree, N, j) => c[i] >= c[j]
           /\ \A i \in made : \A it \in Items :
                 CountIn(tree[Append(N, i)].data, it) =
                     IF ItemIdx(pre, N, it) = i
                     THEN CountIn(pre[N].data, it) ELSE 0
           /\ \A it \in Items :
                 CountIn(tree[N].data, it) =
                     IF HasChild(tree, N, ItemIdx(pre, N, it))
                     THEN 0 ELSE CountIn(pre[N].data, it)

\* the scenario of test_rebalance_max_2
C10_Witness ==
    /\ last.op = "rebalance"
    /\ last.node = <<>>
    /\ kind = "Vec"
    /\ last.pre[<<>>].max_size = 2
    /\ last.pre[<<>>].data = <<<<1, 1, 1>>, <<2, 2, 1>>, <<-1, -1, -1>>>>
    /\ DataLen(tree[<<>>].data) = 1
    /\ HasChild(tree, <<>>, get_child_idx_at_pos(TRUE, TRUE, TRUE))
    /\ DataLen(tree[<<7>>].data) = 2
    /\ ~HasChild(tree, <<>>, get_child_idx_at_pos(FALSE, FALSE, FALSE))

\* C6: the child geometry of a node with centre c and half length h is the
\* half length h/2 and the centre c + h/2 on the axes whose flag is set and
\* c - h/2 on the others; the node itself is left as it was
C6_ChildGeometry ==
    pf.fn = "get_child_centre_and_half_length_at_pos" =>
        LET h == pf.node.half_length \div 2
        IN /\ pf.out[2] = h
           /\ \A a \in 1 .. 3 :
                 pf.out[1][a] = IF pf.in[a] THEN pf.node.centre[a] + h
                                ELSE pf.node.centre[a] - h
           /\ gnode = pf.node

C6_Witness ==
    /\ pf.fn = "get_child_centre_and_half_length_at_pos"
    /\ pf.in = <<TRUE, FALSE, TRUE>>
    /\ pf.node.centre = <<1, -1, 0>>
    /\ pf.node.half_length = 4
    /\ pf.out = <<<<3, -3, 2>>, 2>>

\* C7: add_child fails with OutOfBoundsIdx for idx >= 8 and with
\* AlreadyAdded for an occupied slot, changing nothing; otherwise it puts the
\* child in slot idx and changes no other slot and not the payload
C7_AddChild ==
    olast.op = "add_child" =>
        IF olast.idx >= 8
        THEN olast.err = "OutOfBoundsIdx" /\ oct = olast.pre
        ELSE IF olast.pre.children[olast.idx] # None
        THEN olast.err = "AlreadyAdded" /\ oct = olast.pre
        ELSE /\ olast.err = "none"
             /\ olast.ret = olast.child
             /\ oct.children[olast.idx] = olast.child
             /\ \A i \in Idxs \ {olast.idx} :
                   oct.children[i] = olast.pre.children[i]
             /\ oct.data = olast.pre.data

C7_Witness ==
    /\ olast.op = "add_child"
    /\ olast.err = "AlreadyAdded"
    /\ olast.pre.children[olast.idx] # olast.child
    /\ oct.children[olast.idx] = olast.pre.children[olast.idx]

\* C8: after remove_child(idx) get_child(idx) is None; remove_child returns
\* the child of an occupied slot, returns None and changes nothing for an
\* empty slot or idx >= 8, and never touches another slot or the payload
C8_RemoveChild ==
    olast.op = "remove_child" =>
        /\ get_child(oct, olast.idx) = None
        /\ IF olast.idx < 8 /\ olast.pre.children[olast.idx] # None
           THEN olast.ret = olast.pre.children[olast.idx]
           ELSE olast.ret = None /\ oct = olast.pre
        /\ \A i \in Idxs \ {olast.idx} :
              oct.children[i] = olast.pre.children[i]
        /\ oct.data = olast.pre.data

C8_Witness ==
    /\ olast.op = "remove_child"
    /\ olast.ret # None
    /\ Occupied(oct) # {}

Bit(b) == IF b THEN 1 ELSE 0

Triples == BOOLEAN \X BOOLEAN \X BOOLEAN

\* C9: get_child_idx_at_pos(x, y, z) = 4x + 2y + z, it maps the 8 triples
\* one-to-one onto 0 .. 7, and get_child_pos_at_idx gives the triple back
C9_OctantIndexBijection ==
    /\ pf.fn = "get_child_idx_at_pos" =>
          /\ pf.out[1] = 4 * Bit(pf.in[1]) + 2 * Bit(pf.in[2]) + Bit(pf.in[3])
          /\ get_child_pos_at_idx(pf.out[1]) = pf.in
    /\ pf.fn = "get_child_pos_at_idx" /\ pf.in[1] < 8 =>
          get_child_idx_at_pos(pf.out[1], pf.out[2], pf.out[3]) = pf.in[1]
    /\ {get_child_idx_at_pos(t[1], t[2], t[3]) : t \in Triples} = 0 .. 7
    /\ \A t \in Triples, u \in Triples :
          get_child_idx_at_pos(t[1], t[2], t[3])
              = get_child_idx_at_pos(u[1], u[2], u[3]) => t = u

C9_Witness ==
    /\ pf.fn = "get_child_idx_at_pos"
    /\ pf.in = <<FALSE, FALSE, TRUE>>
    /\ pf.out = <<1>>

\* the octant of item it relative to the centre of node N of tree t, by
\* strict greater-than on each axis (equal counts as the negative side)
StrictOctant(t, N, it) ==
    4 * Bit(centre(it)[1] > t[N].centre[1])
      + 2 * Bit(centre(it)[2] > t[N].centre[2])
      + Bit(centre(it)[3] > t[N].centre[3])

\* the items held in N's own collection in tree t
LocalItems(t, N) == {it \in Items : CountIn(t[N].data, it) > 0}

\* C11 as stated: after rebalance on N every item that was local to N is in
\* the child of its strict octant if N has a child there on return, and is
\* still local to N otherwise; nothing left in N belongs to an octant with
\* a child
C11_RedistributionAsStated ==
    last.op = "rebalance" =>
        LET N == last.node
            pre == last.pre
        IN /\ \A it \in LocalItems(pre, N) :
                 LET i == StrictOctant(pre, N, it)
                 IN IF HasChild(tree, N, i)
                    THEN /\ CountIn(tree[Append(N, i)].data, it) > 0
                         /\ CountIn(tree[N].data, it) = 0
                    ELSE CountIn(tree[N].data, it) = CountIn(pre[N].data, it)
           /\ \A it \in LocalItems(tree, N) :
                 ~HasChild(tree, N, StrictOctant(tree, N, it))

\* number of copies of it in the child in slot i of N (0 without a child)
ChildCount(t, N, i, it) ==
    IF HasChild(t, N, i) THEN CountIn(t[Append(N, i)].data, it) ELSE 0

\* C11 amended: as stated, except that a HashMap item whose key the child
\* already held before the call is dropped: it leaves N, and the child keeps
\* the entries it had
C11_Redistribution ==
    last.op = "rebalance" =>
        LET N == last.node
            pre == last.pre
        IN /\ \A it \in LocalItems(pre, N) :
                 LET i == StrictOctant(pre, N, it)
                 IN IF HasChild(tree, N, i)
                    THEN /\ CountIn(tree[N].data, it) = 0
                         /\ IF kind = "HashMap" /\ HasChild(pre, N, i)
                               /\ it[1] \in KeysOf(pre[Append(N, i)].data)
                            THEN \A it2 \in Items :
                                    it2[1] = it[1] =>
                                        ChildCount(tree, N, i, it2)
                                            = ChildCount(pre, N, i, it2)
                            ELSE ChildCount(tree, N, i, it)
                                    = ChildCount(pre, N, i, it)
                                        + CountIn(pre[N].data, it)
                    ELSE CountIn(tree[N].data, it) = CountIn(pre[N].data, it)
           /\ \A it \in LocalItems(tree, N) :
                 ~HasChild(tree, N, StrictOctant(tree, N, it))

\* an item on a centre plane of N moves into a child that existed before the
\* call, on the negative side, while N held no more than max_size items
C11_Witness ==
    /\ last.op = "rebalance"
    /\ DataLen(last.pre[last.node].data) <= last.pre[last.node].max_size
    /\ \E it \in LocalItems(last.pre, last.node) :
          /\ centre(it)[1] = last.pre[last.node].centre[1]
          /\ StrictOctant(last.pre, last.node, it) < 4
          /\ HasChild(last.pre, last.node, StrictOctant(last.pre, last.node, it))
          /\ ChildCount(tree, last.node, StrictOctant(last.pre, last.node, it), it) > 0
          /\ CountIn(tree[last.node].data, it) = 0

\* the fields of a node that add, clear_data and rebalance never write
Settings(node) ==
    <<node.centre, node.half_length, node.max_size, node.drop_below_size>>

\* collection d2 is d1 with items appended (Vec) or inserted (HashMap)
Extends(d1, d2) ==
    IF kind = "Vec"
    THEN Len(d1) <= Len(d2) /\ SubSeq(d2, 1, Len(d1)) = d1
    ELSE d1 \subseteq d2

IsChildOf(q, N) == Len(q) = Len(N) + 1 /\ IsPrefix(N, q)

\* C12: rebalance on N creates nodes only as children of N, removes no
\* node, leaves every node other than N and its children as it was, and
\* only appends items to the collections of the children N already had
C12_SingleLevel ==
    last.op = "rebalance" =>
        LET N == last.node
            pre == last.pre
        IN /\ DOMAIN pre \subseteq DOMAIN tree
           /\ \A q \in DOMAIN tree \ DOMAIN pre : IsChildOf(q, N)
           /\ \A q \in DOMAIN pre :
                 IF q = N THEN Settings(tree[q]) = Settings(pre[q])
                 ELSE IF IsChildOf(q, N)
                 THEN /\ Settings(tree[q]) = Settings(pre[q])
                      /\ Extends(pre[q].data, tree[q].data)
                 ELSE tree[q] = pre[q]

\* a child that existed before received items and ends above max_size,
\* and a new child ends above max_size, without any grandchild appearing
C12_Witness ==
    /\ last.op = "rebalance"
    /\ \E i \in Idxs :
          /\ HasChild(last.pre, last.node, i)
          /\ DataLen(tree[Append(last.node, i)].data)
                > DataLen(last.pre[Append(last.node, i)].data)
          /\ DataLen(tree[Append(last.node, i)].data) > tree[last.node].max_size
    /\ \E i \in Created(last.pre, tree, last.node) :
          DataLen(tree[Append(last.node, i)].data) > tree[last.node].max_size

\* C13: clear_data on N empties N's collection, lowers len by the number
\* of items that were in it, and changes neither N's settings nor any other
\* node
C13_ClearData ==
    last.op = "clear_data" =>
        LET N == last.node
            pre == last.pre
        IN /\ DataLen(tree[N].data) = 0
           /\ tree[N].data = DefaultData
           /\ tree[N].len = pre[N].len - DataLen(pre[N].data)
           /\ Settings(tree[N]) = Settings(pre[N])
           /\ DOMAIN tree = DOMAIN pre
           /\ \A q \in DOMAIN pre \ {N} : tree[q] = pre[q]

\* clear_data on a node with a non-empty child, items of its own and a len
\* above the number of its items
C13_Witness ==
    /\ last.op = "clear_data"
    /\ DataLen(last.pre[last.node].data) > 0
    /\ last.pre[last.node].len > DataLen(last.pre[last.node].data)
    /\ tree[last.node].len > 0
    /\ \E i \in Idxs :
          /\ HasChild(tree, last.node, i)
          /\ DataLen(tree[Append(last.node, i)].data) > 0

\* C14: after every rebalance on N, N's own collection holds at most
\* max_size items
C14_LocalWithinMaxSize ==
    last.op = "rebalance" =>
        DataLen(tree[last.node].data) <= tree[last.node].max_size

\* max_size 0, a node that had a child already and gets two more
C14_Witness ==
    /\ last.op = "rebalance"
    /\ tree[last.node].max_size = 0
    /\ \E i \in Idxs : HasChild(last.pre, last.node, i)
    /\ Cardinality(Created(last.pre, tree, last.node)) >= 2
    /\ DataLen(tree[last.node].data) = 0

\* C15: no call panics: add_child's unwrap in rebalance never fails, the
\* running estimate never goes below zero, no child is built with
\* drop_below_size 0, and len - collection size never goes below zero
C15_NoPanic ==
    /\ panicked = "none"
    /\ \A p \in DOMAIN tree :
          /\ tree[p].len >= DataLen(tree[p].data)
          /\ tree[p].drop_below_size >= 1

\* after a clear_data, rebalance made new children on a node that had a
\* child, and a node holds items while its len exceeds their number
C15_Witness ==
    /\ last.op = "rebalance"
    /\ calls.clear_data > 0
    /\ \E i \in Idxs : HasChild(last.pre, last.node, i)
    /\ Created(last.pre, tree, last.node) # {}
    /\ \E p \in DOMAIN tree :
          DataLen(tree[p].data) > 0 /\ tree[p].len > DataLen(tree[p].data)

====
